---- MODULE Spec2Model ----
(***************************************************************************)
(* CHIP-8 / Super-CHIP interpreter core of chiprust-emu: the machine       *)
(* (src/src/lib.rs) and its bit-packed display (src/src/display.rs).       *)
(*                                                                         *)
(* Representation.                                                         *)
(*  - u8 / u16 values are naturals; every wrapping operation is written    *)
(*    with its modulus.                                                    *)
(*  - a u128 display row is the set of its set bit positions (bit 0 is the *)
(*    least significant bit), so rotation is addition modulo 128, XOR is   *)
(*    symmetric difference and "a & b != 0" is a nonempty intersection.    *)
(*  - mem holds the nonzero bytes only: it is a function from the          *)
(*    addresses whose byte is not 0 to that byte, and every other address  *)
(*    of 0..4095 reads 0 (MemGet).  Bounds checks are explicit.            *)
(*  - usize values are integers; the only usize that can wrap is the stack *)
(*    pointer on a pop at 0, and a negative sp stands for 2^w + sp.        *)
(*  - a Rust panic (index out of bounds, checked arithmetic overflow, the  *)
(*    explicit panic! of load) ends the session: result = "panic" and no   *)
(*    operation is enabled afterwards.  The fields keep the values they    *)
(*    had when the panic was raised.                                       *)
(*  - arithmetic overflow of + - * on integers panics when the crate is    *)
(*    built with overflow checks (debug profile) and wraps otherwise       *)
(*    (release profile); overflow_checks is fixed at Init, either way.     *)
(***************************************************************************)
EXTENDS Integers, Sequences, FiniteSets, TLC

\* ------------------------------------------------------------ constants
MemSize == 4096
NumRegs == 16
StackSize == 16
NumRows == 64
RowBits == 128
FontSize == 240
ByteMod == 256

Bytes == 0..(ByteMod - 1)

DEFAULT_FONT ==
  <<
     240, 144, 144, 144, 240, 32, 96, 32, 32, 112,
     240, 16, 240, 128, 240, 240, 16, 240, 16, 240,
     144, 144, 240, 16, 16, 240, 128, 240, 16, 240,
     240, 128, 240, 144, 240, 240, 16, 32, 64, 64,
     240, 144, 240, 144, 240, 240, 144, 240, 16, 240,
     240, 144, 240, 144, 144, 224, 144, 224, 144, 224,
     240, 128, 128, 128, 128, 240, 144, 144, 144, 224,
     240, 128, 240, 128, 240, 240, 128, 240, 128, 128,
     255, 255, 195, 195, 195, 195, 195, 195, 255, 255,
     24, 120, 120, 24, 24, 24, 24, 24, 255, 255,
     255, 255, 3, 3, 255, 255, 192, 192, 255, 255,
     255, 255, 3, 3, 255, 255, 3, 3, 255, 255,
     195, 195, 195, 195, 255, 255, 3, 3, 3, 3,
     255, 255, 192, 192, 255, 255, 3, 3, 255, 255,
     255, 255, 192, 192, 255, 255, 195, 195, 255, 255,
     255, 255, 3, 3, 6, 12, 24, 24, 24, 24,
     255, 255, 195, 195, 255, 255, 195, 195, 255, 255,
     255, 255, 195, 195, 255, 255, 3, 3, 255, 255,
     126, 255, 195, 195, 195, 255, 255, 195, 195, 195,
     252, 252, 195, 195, 252, 252, 195, 195, 252, 252,
     60, 255, 195, 192, 192, 192, 192, 195, 255, 60,
     252, 254, 195, 195, 195, 195, 195, 195, 254, 252,
     255, 255, 192, 192, 255, 255, 192, 192, 255, 255,
     255, 255, 192, 192, 255, 255, 192, 192, 192, 192
  >>

\* ------------------------------------------------------------ bit helpers
\* The set of set bit positions of the w-bit value v.
BitsOf(v, w) == {k \in 0..(w - 1) : (v \div (2 ^ k)) % 2 = 1}

\* The byte whose set bits are exactly S (S a subset of 0..7).
ByteOf(S) ==
  LET p(k) == IF k \in S THEN 2 ^ k ELSE 0
  IN  p(0) + p(1) + p(2) + p(3) + p(4) + p(5) + p(6) + p(7)

BitOr(a, b) == ByteOf(BitsOf(a, 8) \cup BitsOf(b, 8))
BitAnd(a, b) == ByteOf(BitsOf(a, 8) \cap BitsOf(b, 8))
BitXor(a, b) ==
  ByteOf((BitsOf(a, 8) \cup BitsOf(b, 8)) \ (BitsOf(a, 8) \cap BitsOf(b, 8)))

\* u128 helpers on rows held as bit sets.
RowXor(r, s) == (r \cup s) \ (r \cap s)
RotL(r, k) == {(p + k) % RowBits : p \in r}
RotR(r, k) == {(p + RowBits - (k % RowBits)) % RowBits : p \in r}

\* ------------------------------------------------------------ display.rs
\* expand(n): bit i of the byte goes to bits 2i and 2i+1 of the u16.
expand(n) ==
  LET result == {2 * k : k \in BitsOf(n, 8)}
  IN  result \cup {(p + 1) : p \in {q \in result : q + 1 < 16}}

Display_new ==
  [d |-> [r \in 0..(NumRows - 1) |-> {}], hi_res |-> FALSE, dirty |-> FALSE]

hi_res_mode(D) == [D EXCEPT !.hi_res = TRUE]

low_res_mode(D) == [D EXCEPT !.hi_res = FALSE]

\* Faulty variant of scroll_down: the rows rotate towards index 0.
scroll_down_left(D, n) ==
  IF n > NumRows
    THEN [display |-> D, panic |-> TRUE]
    ELSE LET rot == [r \in 0..(NumRows - 1) |-> D.d[(r + n) % NumRows]]
         IN  [display |-> [D EXCEPT !.d = [rot EXCEPT ![0] = {}, ![1] = {}]],
              panic |-> FALSE]

\* slice::rotate_right(n) panics when n exceeds the length; then rows 0 and 1
\* are zeroed.  Returns [display, panic].
scroll_down(D, n) ==
  IF n > NumRows
    THEN [display |-> D, panic |-> TRUE]
    ELSE LET rot == [r \in 0..(NumRows - 1) |->
                       D.d[(r + NumRows - (n % NumRows)) % NumRows]]
         IN  [display |-> [D EXCEPT !.d = [rot EXCEPT ![0] = {}, ![1] = {}]],
              panic |-> FALSE]

\* n > 0 rotates every row right, n < 0 left; n = 0 is excluded by the
\* documented precondition (unreachable_unchecked).
scroll_side(D, n) ==
  [D EXCEPT !.d = [r \in 0..(NumRows - 1) |->
                     IF n > 0 THEN RotR(D.d[r], n) ELSE RotL(D.d[r], 0 - n)]]

clear(D) == [D EXCEPT !.d = [r \in 0..(NumRows - 1) |-> {}]]

\* The rotation amount of write: 112 - x as u32.  For x > 112 the u32
\* subtraction overflows: a panic with overflow checks, else it wraps and
\* rotate_left reduces the amount modulo 128.  -1 stands for the panic.
write_rot(x, checks) ==
  IF x <= 112 THEN 112 - x
  ELSE IF checks THEN -1
  ELSE (112 + RowBits - x) % RowBits

\* write(b, x, y) -> erased.  Returns [display, erased, panic].
write(D, b, x0, y0, checks) ==
  LET bb  == IF ~D.hi_res THEN expand(b) ELSE BitsOf(b, 8)
      x   == (IF ~D.hi_res THEN x0 * 2 ELSE x0) % RowBits
      y   == (IF ~D.hi_res THEN y0 * 2 ELSE y0) % NumRows
      D1  == [D EXCEPT !.dirty = TRUE]
      rot == write_rot(x, checks)
  IN  IF rot < 0
        THEN [display |-> D1, erased |-> FALSE, panic |-> TRUE]
        ELSE
          LET br  == RotL(bb, rot)
              e1  == (br \cap D1.d[y]) # {}
              D2  == [D1 EXCEPT !.d[y] = RowXor(@, br)]
          IN  IF ~D.hi_res
                THEN [display |-> [D2 EXCEPT !.d[y + 1] = RowXor(@, br)],
                      erased |-> e1 \/ (br \cap D2.d[y + 1]) # {},
                      panic |-> FALSE]
                ELSE [display |-> D2, erased |-> e1, panic |-> FALSE]

\* Faulty variant of read: the dirty flag is left as it is.
read_keeps_dirty(D) == [display |-> D, value |-> D.d]

\* read() clears the dirty flag and returns the buffer.
read(D) == [display |-> [D EXCEPT !.dirty = FALSE], value |-> D.d]

\* read_px(x, y): the shift is 127 - x as u32 (overflowing_shr reduces it
\* modulo 128).  Returns [display, value, panic].
read_px(D, x, y, checks) ==
  LET D1 == [D EXCEPT !.dirty = FALSE]
  IN  IF y >= NumRows \/ (x > 127 /\ checks)
        THEN [display |-> D1, value |-> FALSE, panic |-> TRUE]
        ELSE [display |-> D1,
              value |-> ((127 + RowBits - (x % RowBits)) % RowBits) \in D1.d[y],
              panic |-> FALSE]

\* ------------------------------------------------------------ lib.rs
VARIABLES mem, regs, stack, pc, i, sp, sound_timer, delay_timer, display,
          result, overflow_checks, loaded, calls, hist, nops, saved, tticks,
          nloads

vars == <<mem, regs, stack, pc, i, sp, sound_timer, delay_timer, display,
          result, overflow_checks, loaded, calls, hist, nops, saved, tticks,
          nloads>>

\* mem .. display are the fields of Chip8 (display is its public Display).
\* result is what the last load or cpu_tick returned ("none" before the first,
\* "unit" for load, "panic" once a call has panicked).  overflow_checks is the
\* build profile.  loaded says whether load has been called.  calls, hist and
\* nops are history: the outstanding calls (address of the 2nnn and the stack
\* pointer it found), the last two direct display calls, and their number.
\* saved is the registers, I and x as the most recent completed Fx55 found
\* them (<<>> before any, and after any other write to memory).  tticks is the
\* number of counted timers_tick calls since the last completed Fx15 or Fx18
\* (since construction before any), held at 255 once there.  nloads is the
\* number of counted load calls.

\* The Chip8 struct as one value.
Machine ==
  [mem |-> mem, regs |-> regs, stack |-> stack, pc |-> pc, i |-> i, sp |-> sp,
   sound_timer |-> sound_timer, delay_timer |-> delay_timer,
   display |-> display, result |-> result]

\* mem[a] for a in 0..MemSize-1.
MemGet(mm, a) == IF a \in DOMAIN mm THEN mm[a] ELSE 0

\* mem[lo + k] = bytes[k + 1] for every k with lo + k inside the memory.
MemWrite(mm, lo, bytes) ==
  LET get(a) == IF a >= lo /\ a < lo + Len(bytes)
                  THEN bytes[a - lo + 1] ELSE MemGet(mm, a)
      span   == {a \in lo..(lo + Len(bytes) - 1) : a < MemSize}
      dom    == {a \in DOMAIN mm \cup span : get(a) # 0}
  IN  [a \in dom |-> get(a)]

Panic(m) == [m EXCEPT !.result = "panic"]

B2U(e) == IF e THEN 1 ELSE 0

\* Chip8::new
Chip8_new ==
  [mem |-> MemWrite(<<>>, 0, <<>>),
   regs |-> [r \in 0..(NumRegs - 1) |-> 0],
   stack |-> [s \in 0..(StackSize - 1) |-> 0],
   pc |-> 0, i |-> 0, sp |-> 0, sound_timer |-> 0, delay_timer |-> 0,
   display |-> Display_new, result |-> "none"]

\* Option::None of the font argument (Some(f) is the 240-byte sequence f).
None == <<>>

\* Faulty variant of load: the registers are cleared as well.
load_resetting(m, at, program, font) ==
  IF at < FontSize THEN Panic(m)
  ELSE IF at + Len(program) > MemSize
    THEN Panic([m EXCEPT !.mem = MemWrite(@, at, program)])
  ELSE LET f == IF font = None THEN DEFAULT_FONT ELSE font
       IN  [m EXCEPT !.mem = MemWrite(MemWrite(@, at, program), 0, f),
                     !.pc = at, !.result = "unit",
                     !.regs = [r \in 0..(NumRegs - 1) |-> 0]]

\* Chip8::load(at, program, font); font is None or a 240-byte sequence.
\* The program is copied first, then the font over bytes 0..239.
load(m, at, program, font) ==
  IF at < FontSize THEN Panic(m)
  ELSE IF at + Len(program) > MemSize
    THEN Panic([m EXCEPT !.mem = MemWrite(@, at, program)])
  ELSE LET f == IF font = None THEN DEFAULT_FONT ELSE font
       IN  [m EXCEPT !.mem = MemWrite(MemWrite(@, at, program), 0, f),
                     !.pc = at, !.result = "unit"]

\* Faulty variant of stack_push: the slot is written first, then the pointer
\* moves.
stack_push_postinc(m, v) ==
  IF m.sp \in 0..(StackSize - 1)
    THEN [m EXCEPT !.stack[m.sp] = v, !.sp = m.sp + 1]
    ELSE Panic(m)

\* stack_push: the pointer moves first, then the slot is written.
stack_push(m, v) ==
  LET sp1 == m.sp + 1
  IN  IF sp1 \in 0..(StackSize - 1)
        THEN [m EXCEPT !.sp = sp1, !.stack[sp1] = v]
        ELSE Panic([m EXCEPT !.sp = sp1])

\* stack_pop: the pointer moves first, then slot sp + 1 is read.
\* Returns [m, v].  sp -= 1 at 0 overflows (panic or wrap to the maximum,
\* held as -1).
stack_pop(m, checks) ==
  IF m.sp = 0 /\ checks THEN [m |-> Panic(m), v |-> 0]
  ELSE LET sp1 == m.sp - 1
           idx == sp1 + 1
       IN  IF idx \in 0..(StackSize - 1)
             THEN [m |-> [m EXCEPT !.sp = sp1], v |-> m.stack[idx]]
             ELSE [m |-> Panic([m EXCEPT !.sp = sp1]), v |-> 0]

\* Faulty variant of timers_tick: the sound timer waits for the delay timer.
timers_tick_coupled(m) ==
  IF m.delay_timer > 0 THEN [m EXCEPT !.delay_timer = @ - 1]
  ELSE [m EXCEPT !.sound_timer = IF @ > 0 THEN @ - 1 ELSE @]

is_sound_playing(m) == m.sound_timer > 0

timers_tick(m) ==
  [m EXCEPT !.delay_timer = IF @ > 0 THEN @ - 1 ELSE @,
            !.sound_timer = IF @ > 0 THEN @ - 1 ELSE @]

\* ---- opcode fields
OpX(opcode) == (opcode \div 256) % 16
OpY(opcode) == (opcode \div 16) % 16
OpN(opcode) == opcode % 16
OpKK(opcode) == opcode % 256
OpNNN(opcode) == opcode % 4096

\* The fall-through end of run_opcode: pc += 2; Ok(()).
Advance(m) == IF m.result = "panic" THEN m
              ELSE [m EXCEPT !.pc = @ + 2, !.result = "Ok"]

\* A redirect: return Ok(()) without the trailing pc += 2.
Redirect(m, target) == [m EXCEPT !.pc = target, !.result = "Ok"]

\* The conditional skips: pc += 4; return Ok(()) when cond, else fall through.
Skip(m, cond) == IF cond THEN Redirect(m, m.pc + 4) ELSE Advance(m)

\* Faulty variant of exit_signal: the exit opcode is reported like a decode
\* error.
exit_signal_as_error(m) == [m EXCEPT !.result = "Invalid opcode"]

\* 0x00FD: return Err("Program exited").
exit_signal(m) == [m EXCEPT !.result = "Program exited"]

\* 0x0___
run_0(m, opcode, checks) ==
  CASE opcode \in 192..207 ->
         Advance([m EXCEPT !.display = scroll_down(@, OpN(opcode)).display])
    [] opcode = 224 -> Advance([m EXCEPT !.display = clear(@)])
    [] opcode = 238 ->
         LET p == stack_pop(m, checks)
         IN  Advance(IF p.m.result = "panic" THEN p.m
                     ELSE [p.m EXCEPT !.pc = p.v])
    [] opcode = 251 -> Advance([m EXCEPT !.display = scroll_side(@, 4)])
    [] opcode = 252 -> Advance([m EXCEPT !.display = scroll_side(@, -4)])
    [] opcode = 253 -> exit_signal(m)
    [] opcode = 254 -> Advance([m EXCEPT !.display = low_res_mode(@)])
    [] opcode = 255 -> Advance([m EXCEPT !.display = hi_res_mode(@)])
    [] OTHER -> Advance(m)

\* 0x2nnn
run_call(m, opcode) ==
  LET m1 == stack_push(m, m.pc)
  IN  IF m1.result = "panic" THEN m1 ELSE Redirect(m1, OpNNN(opcode))

\* Faulty variant of decode_error: an unknown sub-opcode is skipped as a no-op.
decode_error_skip(m) == Advance(m)

\* `_ => return Err("Invalid opcode")` of the 0x8, 0xE and 0xF families.
decode_error(m) == [m EXCEPT !.result = "Invalid opcode"]

\* 0x8xy4: overflowing_add(Vx, Vy); VF = carry; then Vx = v.
alu_add(m, x, y) ==
  LET vx == m.regs[x]
      vy == m.regs[y]
  IN  [m EXCEPT !.regs = [[@ EXCEPT ![15] = B2U(vx + vy > 255)]
                            EXCEPT ![x] = (vx + vy) % ByteMod]]

\* Faulty variant of alu_sub: VF = borrow.
alu_sub_borrow(m, x, y) ==
  LET vx == m.regs[x]
      vy == m.regs[y]
  IN  [m EXCEPT !.regs = [[@ EXCEPT ![15] = B2U(vx < vy)]
                            EXCEPT ![x] = (vx - vy) % ByteMod]]

\* 0x8xy5: overflowing_sub(Vx, Vy); VF = !borrow; then Vx = v.
alu_sub(m, x, y) ==
  LET vx == m.regs[x]
      vy == m.regs[y]
  IN  [m EXCEPT !.regs = [[@ EXCEPT ![15] = B2U(~(vx < vy))]
                            EXCEPT ![x] = (vx - vy) % ByteMod]]

\* 0x8xy6: overflowing_shr(Vy, 1); Vx = v; then VF = the returned flag, which
\* says whether the shift amount reached the bit width (1 never does).
alu_shr(m, x, y) ==
  LET vy == m.regs[y]
  IN  [m EXCEPT !.regs = [[@ EXCEPT ![x] = vy \div 2]
                            EXCEPT ![15] = B2U(1 >= 8)]]

\* 0x8xy7: overflowing_add(Vy, Vx); VF = !overflow; then Vx = v.
alu_subn(m, x, y) ==
  LET vx == m.regs[x]
      vy == m.regs[y]
  IN  [m EXCEPT !.regs = [[@ EXCEPT ![15] = B2U(~(vy + vx > 255))]
                            EXCEPT ![x] = (vy + vx) % ByteMod]]

\* 0x8xyE: overflowing_shl(Vy, 1); Vx = v; then VF = the returned flag.
alu_shl(m, x, y) ==
  LET vy == m.regs[y]
  IN  [m EXCEPT !.regs = [[@ EXCEPT ![x] = (vy * 2) % ByteMod]
                            EXCEPT ![15] = B2U(1 >= 8)]]

\* 0x8xy_
run_8(m, opcode) ==
  LET x  == OpX(opcode)
      y  == OpY(opcode)
      vx == m.regs[x]
      vy == m.regs[y]
  IN  CASE OpN(opcode) = 0 -> Advance([m EXCEPT !.regs[x] = vy])
        [] OpN(opcode) = 1 -> Advance([m EXCEPT !.regs[x] = BitOr(vx, vy)])
        [] OpN(opcode) = 2 -> Advance([m EXCEPT !.regs[x] = BitAnd(vx, vy)])
        [] OpN(opcode) = 3 -> Advance([m EXCEPT !.regs[x] = BitXor(vx, vy)])
        [] OpN(opcode) = 4 -> Advance(alu_add(m, x, y))
        [] OpN(opcode) = 5 -> Advance(alu_sub(m, x, y))
        [] OpN(opcode) = 6 -> Advance(alu_shr(m, x, y))
        [] OpN(opcode) = 7 -> Advance(alu_subn(m, x, y))
        [] OpN(opcode) = 14 -> Advance(alu_shl(m, x, y))
        [] OTHER -> decode_error(m)

\* 0xDxyn: the (address, x, y) of each write, in order.
SpriteWrites(m, opcode) ==
  LET vx == m.regs[OpX(opcode)]
      vy == m.regs[OpY(opcode)]
  IN  IF OpN(opcode) = 0 /\ m.display.hi_res
        THEN [k \in 1..32 |->
                [a |-> m.i + ((k - 1) \div 2) * 2 + ((k - 1) % 2),
                 x |-> vx + 8 * ((k - 1) % 2),
                 y |-> vy + ((k - 1) \div 2)]]
        ELSE [k \in 1..OpN(opcode) |->
                [a |-> m.i + (k - 1), x |-> vx, y |-> vy + (k - 1)]]

RECURSIVE draw_writes(_, _, _, _)
draw_writes(m, ws, erased, checks) ==
  IF ws = <<>> THEN [m EXCEPT !.regs[15] = B2U(erased)]
  ELSE IF Head(ws).a >= MemSize THEN Panic(m)
  ELSE LET w == write(m.display, MemGet(m.mem, Head(ws).a), Head(ws).x,
                      Head(ws).y, checks)
       IN  IF w.panic THEN Panic([m EXCEPT !.display = w.display])
           ELSE draw_writes([m EXCEPT !.display = w.display], Tail(ws),
                            erased \/ w.erased, checks)

run_D(m, opcode, checks) ==
  Advance(draw_writes(m, SpriteWrites(m, opcode), FALSE, checks))

\* 0xEx__ ; key is what key_state_handler(Vx) answers.
run_E(m, opcode, key) ==
  CASE OpKK(opcode) = 158 -> Skip(m, key)
    [] OpKK(opcode) = 161 -> Skip(m, ~key)
    [] OTHER -> decode_error(m)

\* Faulty variant of block_store: the range ends before Vx.
block_store_exclusive(m, x) ==
  LET m1 == [m EXCEPT !.mem =
               MemWrite(@, m.i, [k \in 1..x |-> m.regs[k - 1]])]
  IN  IF m.i + x >= MemSize THEN Panic(m1) ELSE m1

\* 0xFx55: mem[i + j] = regs[j] for j in 0..=x, in order, until an index is
\* out of the memory.
block_store(m, x) ==
  LET m1 == [m EXCEPT !.mem =
               MemWrite(@, m.i, [k \in 1..(x + 1) |-> m.regs[k - 1]])]
  IN  IF m.i + x >= MemSize THEN Panic(m1) ELSE m1

\* 0xFx65: regs[j] = mem[i + j] for j in 0..=x, in order, until an index is
\* out of the memory.
block_load(m, x) ==
  LET m1 == [m EXCEPT !.regs = [r \in 0..(NumRegs - 1) |->
               IF r <= x /\ m.i + r < MemSize
                 THEN MemGet(m.mem, m.i + r) ELSE @[r]]]
  IN  IF m.i + x >= MemSize THEN Panic(m1) ELSE m1

\* 0xFx__ ; wait is what key_wait_handler() answers.
run_F(m, opcode, wait) ==
  LET x  == OpX(opcode)
      vx == m.regs[x]
  IN  CASE OpKK(opcode) = 7 -> Advance([m EXCEPT !.regs[x] = m.delay_timer])
        [] OpKK(opcode) = 10 -> Advance([m EXCEPT !.regs[x] = wait])
        [] OpKK(opcode) = 21 -> Advance([m EXCEPT !.delay_timer = vx])
        [] OpKK(opcode) = 24 -> Advance([m EXCEPT !.sound_timer = vx])
        [] OpKK(opcode) = 30 -> Advance([m EXCEPT !.i = @ + vx])
        [] OpKK(opcode) = 41 -> Advance([m EXCEPT !.i = vx * 5])
        [] OpKK(opcode) = 48 -> Advance([m EXCEPT !.i = vx * 10 + 40])
        [] OpKK(opcode) = 51 ->
             LET digits == <<vx \div 100, (vx % 100) \div 10, (vx % 100) % 10>>
                 m1 == [m EXCEPT !.mem = MemWrite(@, m.i, digits)]
             IN  Advance(IF m.i + 2 >= MemSize THEN Panic(m1) ELSE m1)
        [] OpKK(opcode) = 85 -> Advance(block_store(m, x))
        [] OpKK(opcode) = 101 -> Advance(block_load(m, x))
        [] OTHER -> decode_error(m)

\* run_opcode; env holds what the host's callbacks and the random source
\* answer during this instruction.
run_opcode(m, opcode, env, checks) ==
  LET x  == OpX(opcode)
      y  == OpY(opcode)
      kk == OpKK(opcode)
  IN  CASE opcode \div 4096 = 0 -> run_0(m, opcode, checks)
        [] opcode \div 4096 = 1 -> Redirect(m, OpNNN(opcode))
        [] opcode \div 4096 = 2 -> run_call(m, opcode)
        [] opcode \div 4096 = 3 -> Skip(m, m.regs[x] = kk)
        [] opcode \div 4096 = 4 -> Skip(m, m.regs[x] # kk)
        [] opcode \div 4096 = 5 -> Skip(m, m.regs[x] = m.regs[y])
        [] opcode \div 4096 = 6 -> Advance([m EXCEPT !.regs[x] = kk])
        [] opcode \div 4096 = 7 ->
             Advance([m EXCEPT !.regs[x] = (@ + kk) % ByteMod])
        [] opcode \div 4096 = 8 -> run_8(m, opcode)
        [] opcode \div 4096 = 9 -> Skip(m, m.regs[x] # m.regs[y])
        [] opcode \div 4096 = 10 -> Advance([m EXCEPT !.i = OpNNN(opcode)])
        [] opcode \div 4096 = 11 -> Redirect(m, OpNNN(opcode) + m.regs[0])
        [] opcode \div 4096 = 12 ->
             Advance([m EXCEPT !.regs[x] = BitAnd(env.rnd, kk)])
        [] opcode \div 4096 = 13 -> run_D(m, opcode, checks)
        [] opcode \div 4096 = 14 -> run_E(m, opcode, env.key)
        [] opcode \div 4096 = 15 -> run_F(m, opcode, env.wait)

\* cpu_tick: fetch the big-endian opcode at pc and run it.
cpu_tick(m, env, checks) ==
  IF m.pc + 1 >= MemSize THEN Panic(m)
  ELSE run_opcode(m, MemGet(m.mem, m.pc) * 256 + MemGet(m.mem, m.pc + 1),
                  env, checks)

\* ------------------------------------------------------------ inputs
\* Bounds of the explored inputs.
MaxCalls == 17
MaxOps == 3
MaxLoads == 2

\* The conventional load offset (0x200).
LoadAt == 512

RegIdx == {0, 1, 14, 15}
ByteVals == {0, 1, 127, 128, 255}
KeyCodes == {0, 9, 15}

Op(a, b, c, d) == <<a * 16 + b, c * 16 + d>>
OpK(a, x, k) == <<a * 16 + x, k>>
OpA(a, addr) == <<a * 16 + (addr \div 256), addr % 256>>
Halt == <<0, 253>>
Ret == <<0, 238>>

\* Vx = a; Vy = b; 8xyn; exit.
AluProgram(x, y, a, b, n) ==
  OpK(6, x, a) \o OpK(6, y, b) \o Op(8, x, y, n) \o Halt

\* k nested calls, then k returns, then exit.  The j-th call sits at
\* at + 4(j-1) and is followed by the instruction its return comes back to:
\* the exit for the first call, a return for every other.
RECURSIVE CallChain(_, _, _)
CallChain(at, j, k) ==
  IF j > k THEN Ret
  ELSE OpA(2, at + 4 * j) \o (IF j = 1 THEN Halt ELSE Ret)
         \o CallChain(at, j + 1, k)

\* main calls f twice; f calls g.
CallTwice(at) ==
  OpA(2, at + 8) \o OpA(2, at + 8) \o Halt \o Halt
    \o OpA(2, at + 12) \o Ret \o Ret

\* Vx = a; one instruction of family fam with low byte k; exit (twice, for
\* the skips).
OneProgram(fam, x, a, k) ==
  OpK(6, x, a) \o OpK(fam, x, k) \o Halt \o Halt

\* Vx = a; Vy = b; set the mode; draw the sprite at I = 0 twice; exit.
DrawProgram(x, y, a, b, n, hi) ==
  OpK(6, x, a) \o OpK(6, y, b) \o (IF hi THEN <<0, 255>> ELSE <<0, 254>>)
    \o Op(13, x, y, n) \o Op(13, x, y, n) \o Halt

\* draw a glyph, then one instruction of the 0x0 family; exit.
SysProgram(k) == Op(13, 0, 0, 5) \o <<0, k>> \o Halt

\* The k-th instruction of the flow programs.
FlowOp(x, y, k) ==
  <<OpK(3, x, 1), OpK(4, x, 1), Op(5, x, y, 0), Op(9, x, y, 0),
    OpK(7, x, 255), OpK(12, x, 129), OpA(1, LoadAt + 8),
    OpA(10, 4095), OpA(11, LoadAt + 5), OpA(11, 4095)>>[k]

\* Vx = a; Vy = b; one instruction; exit twice.
FlowProgram(x, y, a, b, k) ==
  OpK(6, x, a) \o OpK(6, y, b) \o FlowOp(x, y, k) \o Halt \o Halt

\* V0..VF = a, a + 17, a + 34, ... (modulo 256): sixteen 6xkk.
FillRegs(a) ==
  [n \in 1..(2 * NumRegs) |->
     IF n % 2 = 1 THEN 96 + ((n - 1) \div 2)
     ELSE (a + 17 * ((n - 1) \div 2)) % ByteMod]

\* fill the registers; I = addr; store V0..Vk; fill the registers with other
\* values; load V0..Vk; exit.
StoreLoad(k, a, addr) ==
  FillRegs(a) \o OpA(10, addr) \o OpK(15, k, 85) \o FillRegs(a + 100)
    \o OpK(15, k, 101) \o Halt

\* I = 0xFFF; V0 = a; I += V0; exit.
IndexProgram(a) == OpA(10, 4095) \o OpK(6, 0, a) \o OpK(15, 0, 30) \o Halt

AltFont == [k \in 1..FontSize |-> IF k % 2 = 1 THEN 0 ELSE 253]

Programs ==
  {AluProgram(x, y, a, b, n) :
     x \in RegIdx, y \in RegIdx, a \in ByteVals, b \in ByteVals, n \in 0..15}
  \cup {AluProgram(x, y, a, b, n) :
          x \in 0..(NumRegs - 1), y \in RegIdx, a \in {1, 128, 255},
          b \in {1, 128, 255}, n \in {4, 5, 6, 7, 14}}
  \cup {CallChain(LoadAt, 1, k) : k \in 1..MaxCalls}
  \cup {CallTwice(LoadAt), Ret}
  \cup {OneProgram(fam, x, a, k) :
          fam \in {14, 15}, x \in {0, 15}, a \in {2, 255}, k \in 0..255}
  \cup {DrawProgram(x, y, a, b, n, hi) :
          x \in {0, 15}, y \in {1, 15}, a \in {0, 60, 120}, b \in {0, 31},
          n \in {0, 1, 5}, hi \in BOOLEAN}
  \cup {SysProgram(k) : k \in {0, 35, 192, 195, 207, 224, 251, 252, 254, 255}}
  \cup {FlowProgram(x, y, a, b, k) :
          x \in {0, 15}, y \in {1}, a \in {1, 3}, b \in {1}, k \in 1..10}
  \cup {OneProgram(15, x, d, k) :
          x \in {0, 15}, d \in 0..15, k \in {41, 48}}
  \cup {IndexProgram(a) : a \in {0, 1, 255}}
  \cup {StoreLoad(k, 3, addr) :
          k \in 0..(NumRegs - 1), addr \in {768, MemSize - 6}}
  \cup {StoreLoad(k, 3, MemSize - 1 - k) : k \in 0..(NumRegs - 1)}

LoadInputs ==
  {[at |-> LoadAt, program |-> p, font |-> None] : p \in Programs}
  \cup {[at |-> FontSize - 1, program |-> Halt, font |-> None],
        [at |-> FontSize, program |-> CallChain(FontSize, 1, 2),
         font |-> AltFont],
        [at |-> MemSize - 1, program |-> Halt, font |-> None]}

\* What the host's callbacks and the random source may answer during the
\* instruction at pc (the defaults of Chip8::new elsewhere).
NoEnv == [key |-> FALSE, wait |-> 0, rnd |-> 0]

OpcodeAt(a) ==
  IF a + 1 < MemSize THEN MemGet(mem, a) * 256 + MemGet(mem, a + 1) ELSE -1

Envs ==
  LET opcode == OpcodeAt(pc)
  IN  CASE opcode \div 4096 = 12 -> {[NoEnv EXCEPT !.rnd = r] : r \in ByteVals}
        [] opcode \div 4096 = 14 -> {[NoEnv EXCEPT !.key = k] : k \in BOOLEAN}
        [] opcode \div 4096 = 15 /\ OpKK(opcode) = 10 ->
             {[NoEnv EXCEPT !.wait = w] : w \in KeyCodes}
        [] OTHER -> {NoEnv}

\* ------------------------------------------------------------ actions
Commit(m) ==
  /\ mem' = m.mem
  /\ regs' = m.regs
  /\ stack' = m.stack
  /\ pc' = m.pc
  /\ i' = m.i
  /\ sp' = m.sp
  /\ sound_timer' = m.sound_timer
  /\ delay_timer' = m.delay_timer
  /\ display' = m.display
  /\ result' = m.result

Init ==
  /\ mem = Chip8_new.mem
  /\ regs = Chip8_new.regs
  /\ stack = Chip8_new.stack
  /\ pc = Chip8_new.pc
  /\ i = Chip8_new.i
  /\ sp = Chip8_new.sp
  /\ sound_timer = Chip8_new.sound_timer
  /\ delay_timer = Chip8_new.delay_timer
  /\ display = Chip8_new.display
  /\ result = Chip8_new.result
  /\ overflow_checks \in BOOLEAN
  /\ loaded = FALSE
  /\ calls = <<>>
  /\ hist = <<>>
  /\ nops = 0
  /\ saved = <<>>
  /\ tticks = 0
  /\ nloads = 0

\* The host loads once per session, before the first tick.
Load ==
  /\ ~loaded
  /\ result # "panic"
  /\ \E inp \in LoadInputs :
       Commit(load(Machine, inp.at, inp.program, inp.font))
  /\ loaded' = TRUE
  /\ UNCHANGED <<overflow_checks, calls, hist, nops, saved, tticks, nloads>>

\* The outstanding calls after this tick: a completed 2nnn adds its address
\* and the stack pointer it found, a completed 00EE removes the newest.
CallsAfter(m) ==
  LET opcode == OpcodeAt(pc)
  IN  IF m.result # "Ok" THEN calls
      ELSE IF opcode \div 4096 = 2
        THEN Append(calls, [addr |-> pc, sp |-> sp])
      ELSE IF opcode = 238 /\ calls # <<>>
        THEN SubSeq(calls, 1, Len(calls) - 1)
      ELSE calls

\* The record of the block store after this tick: a completed Fx55 sets it, a
\* completed Fx33 (the other write to memory) forgets it.
SavedAfter(m) ==
  LET opcode == OpcodeAt(pc)
  IN  IF m.result # "Ok" \/ opcode \div 4096 # 15 THEN saved
      ELSE IF OpKK(opcode) = 85
        THEN [regs |-> regs, i |-> i, x |-> OpX(opcode)]
      ELSE IF OpKK(opcode) = 51 THEN <<>>
      ELSE saved

\* The count of timer ticks after this tick: a completed Fx15 or Fx18 restarts
\* it.
TicksAfter(m) ==
  LET opcode == OpcodeAt(pc)
  IN  IF m.result = "Ok" /\ opcode \div 4096 = 15 /\ OpKK(opcode) \in {21, 24}
        THEN 0 ELSE tticks

CpuTick ==
  /\ loaded
  /\ result # "panic"
  /\ \E env \in Envs :
       LET m == cpu_tick(Machine, env, overflow_checks)
       IN  /\ Commit(m)
           /\ calls' = CallsAfter(m)
           /\ saved' = SavedAfter(m)
           /\ tticks' = TicksAfter(m)
  /\ UNCHANGED <<overflow_checks, loaded, hist, nops, nloads>>

TimersTick ==
  /\ result # "panic"
  /\ Commit(timers_tick(Machine))
  /\ UNCHANGED <<overflow_checks, loaded, calls, hist, nops, saved, tticks,
                 nloads>>

Next == Load \/ CpuTick \/ TimersTick

Spec == Init /\ [][Next]_vars

\* ------------------------------------------------------------ loading again
\* The host may load at any time, over a machine that has run.
\* V0 = 1; I = 0x300; store V0; both timers = V0; draw one row; call the exit
\* that follows.
SetupProgram(at) ==
  OpK(6, 0, 1) \o OpA(10, 768) \o OpK(15, 0, 85) \o OpK(15, 0, 21)
    \o OpK(15, 0, 24) \o Op(13, 0, 0, 1) \o OpA(2, at + 14) \o Halt

ReloadInputs ==
  {[at |-> LoadAt, program |-> SetupProgram(LoadAt), font |-> None],
   [at |-> FontSize, program |-> SetupProgram(FontSize), font |-> AltFont],
   [at |-> LoadAt, program |-> Halt, font |-> AltFont],
   [at |-> MemSize - 2, program |-> Halt, font |-> None],
   [at |-> FontSize - 1, program |-> Halt, font |-> None],
   [at |-> 0, program |-> <<>>, font |-> AltFont]}

ReloadWith(inp) ==
  /\ result # "panic"
  /\ nloads < MaxLoads
  /\ Commit(load(Machine, inp.at, inp.program, inp.font))
  /\ loaded' = TRUE
  /\ nloads' = nloads + 1
  /\ saved' = <<>>
  /\ UNCHANGED <<overflow_checks, calls, hist, nops, tticks>>

Reload == \E inp \in ReloadInputs : ReloadWith(inp)

NextReload == Reload \/ CpuTick

SpecReload == Init /\ [][NextReload]_vars

\* ------------------------------------------------------------ counted timer ticks
\* V0 = a; one of the timers = V0 (Fx15 or Fx18); exit.
TimerProgram(a, k) == OpK(6, 0, a) \o OpK(15, 0, k) \o Halt

\* delay = 2; sound = 3; V2 = delay; an addition; a draw; a call of the exit
\* that follows.
MixedProgram(at) ==
  OpK(6, 0, 2) \o OpK(15, 0, 21) \o OpK(6, 1, 3) \o OpK(15, 1, 24)
    \o OpK(15, 2, 7) \o Op(8, 0, 1, 4) \o Op(13, 0, 1, 1) \o OpA(2, at + 16)
    \o Halt

TimerInputs ==
  {[at |-> LoadAt, program |-> TimerProgram(a, k), font |-> None] :
     a \in {0, 2, 255}, k \in {21, 24}}
  \cup {[at |-> LoadAt, program |-> MixedProgram(LoadAt), font |-> None]}

LoadTimers ==
  /\ ~loaded
  /\ result # "panic"
  /\ \E inp \in TimerInputs :
       Commit(load(Machine, inp.at, inp.program, inp.font))
  /\ loaded' = TRUE
  /\ UNCHANGED <<overflow_checks, calls, hist, nops, saved, tticks, nloads>>

TimersTickCounted ==
  /\ result # "panic"
  /\ Commit(timers_tick(Machine))
  /\ tticks' = IF tticks < ByteMod - 1 THEN tticks + 1 ELSE tticks
  /\ UNCHANGED <<overflow_checks, loaded, calls, hist, nops, saved, nloads>>

NextTimers == LoadTimers \/ CpuTick \/ TimersTickCounted

SpecTimers == Init /\ [][NextTimers]_vars

\* ------------------------------------------------------------ the display alone
\* The host calls the public Display directly.  hist keeps the last two calls:
\* the operation, its arguments, what it returned and the display it found;
\* seen is the buffer as the host last read it (read or read_px; the new
\* buffer before any read), unread says whether a write was called after the
\* most recent read or read_px; nops counts the calls.
WriteBytes == {129, 240}
WriteXs == {0, 4, 60, 120}
WriteYs == {0, 31, 63}
PxArgs == {<<0, 0>>, <<8, 0>>, <<127, 63>>, <<128, 0>>, <<0, 64>>}
ScrollDowns == {0, 2, 3, 15, 65}
ScrollSides == {4, -4, 1, -1}

CallRec(op, b, x, y, ret, panic) ==
  [op |-> op, b |-> b, x |-> x, y |-> y, ret |-> ret, panic |-> panic,
   pre |-> display,
   seen |-> IF op \in {"read", "read_px"} THEN display.d
            ELSE IF hist = <<>> THEN Display_new.d
            ELSE hist[Len(hist)].seen,
   unread |-> IF op = "write" THEN TRUE
              ELSE IF op \in {"read", "read_px"} THEN FALSE
              ELSE IF hist = <<>> THEN FALSE
              ELSE hist[Len(hist)].unread]

DisplayCall(rec, D) ==
  /\ result # "panic"
  /\ nops < MaxOps
  /\ display' = D
  /\ hist' = IF hist = <<>> THEN <<rec>> ELSE <<hist[Len(hist)], rec>>
  /\ nops' = nops + 1
  /\ result' = IF rec.panic THEN "panic" ELSE result
  /\ UNCHANGED <<mem, regs, stack, pc, i, sp, sound_timer, delay_timer,
                 overflow_checks, loaded, calls, saved, tticks, nloads>>

DWrite ==
  \E b \in WriteBytes, x \in WriteXs, y \in WriteYs :
    LET w == write(display, b, x, y, overflow_checks)
    IN  DisplayCall(CallRec("write", b, x, y, w.erased, w.panic), w.display)

DRead ==
  DisplayCall(CallRec("read", 0, 0, 0, FALSE, FALSE), read(display).display)

DReadPx ==
  \E a \in PxArgs :
    LET r == read_px(display, a[1], a[2], overflow_checks)
    IN  DisplayCall(CallRec("read_px", 0, a[1], a[2], r.value, r.panic),
                    r.display)

DClear ==
  DisplayCall(CallRec("clear", 0, 0, 0, FALSE, FALSE), clear(display))

DScrollDown ==
  \E n \in ScrollDowns :
    LET s == scroll_down(display, n)
    IN  DisplayCall(CallRec("scroll_down", n, 0, 0, FALSE, s.panic), s.display)

DScrollSide ==
  \E n \in ScrollSides :
    DisplayCall(CallRec("scroll_side", n, 0, 0, FALSE, FALSE),
                scroll_side(display, n))

DHiRes ==
  DisplayCall(CallRec("hi_res_mode", 0, 0, 0, FALSE, FALSE),
              hi_res_mode(display))

DLowRes ==
  DisplayCall(CallRec("low_res_mode", 0, 0, 0, FALSE, FALSE),
              low_res_mode(display))

NextDisplay ==
  DWrite \/ DRead \/ DReadPx \/ DClear \/ DScrollDown \/ DScrollSide
    \/ DHiRes \/ DLowRes

SpecDisplay == Init /\ [][NextDisplay]_vars

\* ------------------------------------------------------------ properties
\* The fields of the machine other than the returned result.
MachineUnchanged ==
  UNCHANGED <<mem, regs, stack, pc, i, sp, sound_timer, delay_timer, display>>

\* The opcode cpu_tick is about to fetch.
Fetched == OpcodeAt(pc)

Family(opcode) == opcode \div 4096

\* C1: call/return is LIFO.  A return (00EE) executed while calls are
\* outstanding completes and leaves PC at the address of the newest
\* outstanding call plus 2, and the stack pointer at the value that call
\* found; so k nested calls at A1..Ak followed by k returns visit Ak + 2, ...,
\* A1 + 2 and end with the stack pointer the first call found.
C1_CallReturnLIFO ==
  [][(CpuTick /\ Fetched = 238 /\ calls # <<>>)
       => /\ result' = "Ok"
          /\ pc' = calls[Len(calls)].addr + 2
          /\ sp' = calls[Len(calls)].sp]_vars

\* Three nested calls were made and all three have returned: the program is
\* back behind its first call with the stack pointer it started with.
C1_Witness ==
  /\ result = "Program exited"
  /\ pc = LoadAt + 2
  /\ calls = <<>>
  /\ sp = 0
  /\ stack[1] = LoadAt /\ stack[2] = LoadAt + 4 /\ stack[3] = LoadAt + 8

\* The sub-opcodes the three closed families do not enumerate.
InvalidOpcode(opcode) ==
  \/ Family(opcode) = 8 /\ OpN(opcode) \notin {0, 1, 2, 3, 4, 5, 6, 7, 14}
  \/ Family(opcode) = 14 /\ OpKK(opcode) \notin {158, 161}
  \/ Family(opcode) = 15
       /\ OpKK(opcode) \notin {7, 10, 21, 24, 30, 41, 48, 51, 85, 101}

\* C2: a cpu_tick that fetches an unenumerated sub-opcode of family 0x8, 0xE
\* or 0xF returns the decode error and changes nothing; and whenever the
\* decode error is the last result, the opcode at PC is still such an opcode,
\* so every later cpu_tick returns the same error.
C2_DecodeErrorIsFatal ==
  /\ [](result = "Invalid opcode" => InvalidOpcode(Fetched))
  /\ [][(CpuTick /\ InvalidOpcode(Fetched))
          => (result' = "Invalid opcode" /\ MachineUnchanged)]_vars

\* 6FFF has run and the next tick returned the decode error for an
\* unenumerated 0xFF__ opcode, PC still on it.
C2_Witness ==
  /\ result = "Invalid opcode"
  /\ pc = LoadAt + 2
  /\ Family(Fetched) = 15
  /\ regs[15] = 255

\* C3: for x in 0..14, 8xy4 leaves Vx = (Vx + Vy) mod 256 and VF = 1 iff
\* Vx + Vy > 255; 8xy5 leaves Vx = (Vx - Vy) mod 256 and VF = 1 iff Vx >= Vy.
C3_AddSubFlags ==
  [][(CpuTick /\ Family(Fetched) = 8 /\ OpX(Fetched) <= 14
        /\ OpN(Fetched) \in {4, 5})
       => LET x == OpX(Fetched)
              a == regs[x]
              b == regs[OpY(Fetched)]
          IN  IF OpN(Fetched) = 4
                THEN /\ regs'[x] = (a + b) % 256
                     /\ regs'[15] = IF a + b > 255 THEN 1 ELSE 0
                ELSE /\ regs'[x] = (a - b) % 256
                     /\ regs'[15] = IF a >= b THEN 1 ELSE 0]_vars

\* 8015 has run with V0 = 1 and V1 = 128: a borrow, V0 = 129 and VF = 0.
C3_Witness ==
  /\ result = "Ok"
  /\ pc = LoadAt + 6
  /\ OpcodeAt(LoadAt + 4) = 8 * 4096 + 1 * 16 + 5
  /\ OpcodeAt(LoadAt) = 6 * 4096 + 1
  /\ OpcodeAt(LoadAt + 2) = 6 * 4096 + 256 + 128
  /\ regs[0] = 129
  /\ regs[15] = 0

\* C4: for x in 0..14, 8xy7 leaves Vx = (Vy - Vx) mod 256 and VF = 1 iff
\* Vy >= Vx.
C4_ReverseSubtract ==
  [][(CpuTick /\ Family(Fetched) = 8 /\ OpX(Fetched) <= 14
        /\ OpN(Fetched) = 7)
       => LET x == OpX(Fetched)
              a == regs[x]
              b == regs[OpY(Fetched)]
          IN  /\ regs'[x] = (b - a) % 256
              /\ regs'[15] = IF b >= a THEN 1 ELSE 0]_vars

\* C5: for x in 0..14, 8xy6 leaves Vx = Vy div 2 and VF = Vy mod 2; 8xyE leaves
\* Vx = (2 Vy) mod 256 and VF = Vy div 128.
C5_ShiftOutBit ==
  [][(CpuTick /\ Family(Fetched) = 8 /\ OpX(Fetched) <= 14
        /\ OpN(Fetched) \in {6, 14})
       => LET x == OpX(Fetched)
              b == regs[OpY(Fetched)]
          IN  IF OpN(Fetched) = 6
                THEN regs'[x] = b \div 2 /\ regs'[15] = b % 2
                ELSE regs'[x] = (2 * b) % 256 /\ regs'[15] = b \div 128]_vars

\* Whether the step unset a pixel that was set.
Collision ==
  \E r \in 0..(NumRows - 1) : display.d[r] \ display'.d[r] # {}

\* C6: after every completed flag-producing instruction, for every x and y
\* (x = 0xF included), VF is 0 or 1, never the arithmetic result written to
\* Vx, and is the instruction's flag: the carry (8xy4), the not-borrow (8xy5),
\* the collision (Dxyn).  (Which bit 8xy6, 8xy7 and 8xyE produce is C4's and
\* C5's subject; here they only have to leave 0 or 1.)
C6_FlagOverwritesVF ==
  [][(/\ CpuTick
      /\ result' = "Ok"
      /\ \/ Family(Fetched) = 8 /\ OpN(Fetched) \in {4, 5, 6, 7, 14}
         \/ Family(Fetched) = 13)
       => LET a == regs[OpX(Fetched)]
              b == regs[OpY(Fetched)]
              n == OpN(Fetched)
          IN  /\ regs'[15] \in {0, 1}
              /\ Family(Fetched) = 13
                   => regs'[15] = (IF Collision THEN 1 ELSE 0)
              /\ (Family(Fetched) = 8 /\ n = 4)
                   => regs'[15] = (IF a + b > 255 THEN 1 ELSE 0)
              /\ (Family(Fetched) = 8 /\ n = 5)
                   => regs'[15] = (IF a >= b THEN 1 ELSE 0)]_vars

\* C7: the stack holds 16 return addresses.  A call can go past the stack
\* only when 16 calls are already outstanding, and the addresses of the
\* outstanding calls are all retained, each in the slot its call wrote.
C7_SixteenNestedCalls ==
  /\ (result = "panic" /\ loaded /\ Family(Fetched) = 2)
       => Len(calls) >= StackSize
  /\ \A j \in 1..Len(calls) : stack[calls[j].sp + 1] = calls[j].addr

\* C8: a cpu_tick that fetches 0x00FD returns the exit signal, which is neither
\* success nor the decode error, and changes nothing; the exit signal is
\* returned for no other opcode.
C8_ExitSignal ==
  /\ [](result = "Program exited" => Fetched = 253)
  /\ [][(CpuTick /\ Fetched = 253)
          => /\ result' = "Program exited"
             /\ result' \notin {"Ok", "Invalid opcode"}
             /\ MachineUnchanged]_vars

\* The exit signal was returned for the 0x00FD at LoadAt + 4, after two
\* instructions that left V0 = 255, and PC is still on it.
C8_Witness ==
  /\ result = "Program exited"
  /\ Fetched = 253
  /\ regs[0] = 255
  /\ pc = LoadAt + 4

\* The newest call of the display's history.
LastCall == hist[Len(hist)]

\* Pixel (c, r) of the buffer b, as read_px reads it.
Pixel(b, c, r) == (127 - c) \in b[r]

\* The columns and rows a write(b, x, y) covers in the mode of display D: 8
\* columns from x mod 128 in row y mod 64 in high resolution, 16 columns from
\* 2x mod 128 in rows 2y mod 64 and the next in low resolution.
CoveredCols(D, x) ==
  IF D.hi_res THEN {(x + k) % 128 : k \in 0..7}
  ELSE {(2 * x + k) % 128 : k \in 0..15}

CoveredRows(D, y) ==
  IF D.hi_res THEN {y % 64} ELSE {(2 * y) % 64, ((2 * y) % 64) + 1}

\* C9: collision law, in both modes.  A write of a nonzero byte whose covered
\* rows and columns are all unset returns false; and a write that repeats the
\* previous write returns true and leaves the buffer as it was before the
\* first of the two.
C9_CollisionLaw ==
  /\ (hist # <<>> /\ LastCall.op = "write" /\ LastCall.b # 0
        /\ \A c \in CoveredCols(LastCall.pre, LastCall.x),
              r \in CoveredRows(LastCall.pre, LastCall.y) :
             ~Pixel(LastCall.pre.d, c, r))
       => (~LastCall.panic /\ LastCall.ret = FALSE)
  /\ (Len(hist) = 2 /\ hist[1].op = "write" /\ hist[2].op = "write"
        /\ hist[1].b # 0 /\ ~hist[1].panic
        /\ <<hist[1].b, hist[1].x, hist[1].y>>
             = <<hist[2].b, hist[2].x, hist[2].y>>)
       => (~hist[2].panic /\ hist[2].ret = TRUE /\ display.d = hist[1].pre.d)

\* C10: in high resolution a write(b, x, y) that returns, made on a cleared
\* display, sets pixel ((x + k) mod 128, y mod 64) iff bit 7 - k of b is set,
\* for k in 0..7, and no other pixel.
C10_HiResPosition ==
  (hist # <<>> /\ LastCall.op = "write" /\ ~LastCall.panic
     /\ LastCall.pre.hi_res
     /\ \A r \in 0..(NumRows - 1) : LastCall.pre.d[r] = {})
    => \A c \in 0..127, r \in 0..(NumRows - 1) :
         read_px(display, c, r, overflow_checks).value
           = (/\ r = LastCall.y % 64
              /\ \E k \in 0..7 : /\ c = (LastCall.x + k) % 128
                                 /\ (7 - k) \in BitsOf(LastCall.b, 8))

\* C11: in low resolution a write(b, x, y) made on a cleared display returns
\* and draws each bit of b as a 2x2 block: for i in 0..7 the pixels at columns
\* (2x + 2i) mod 128 and (2x + 2i + 1) mod 128 of rows (2y) mod 64 and
\* (2y) mod 64 + 1 are set iff bit 7 - i of b is set, no other pixel is set,
\* and the two rows hold the same pattern.
C11_LowResBlocks ==
  (hist # <<>> /\ LastCall.op = "write" /\ ~LastCall.pre.hi_res
     /\ \A r \in 0..(NumRows - 1) : LastCall.pre.d[r] = {})
    => /\ ~LastCall.panic
       /\ \A c \in 0..127, r \in 0..(NumRows - 1) :
            read_px(display, c, r, overflow_checks).value
              = (/\ r \in {(2 * LastCall.y) % 64, ((2 * LastCall.y) % 64) + 1}
                 /\ \E k \in 0..7 :
                      /\ c \in {(2 * LastCall.x + 2 * k) % 128,
                                (2 * LastCall.x + 2 * k + 1) % 128}
                      /\ (7 - k) \in BitsOf(LastCall.b, 8))
       /\ display.d[(2 * LastCall.y) % 64]
            = display.d[((2 * LastCall.y) % 64) + 1]

\* C12: scroll_down(n) for n in 0..15 returns, leaves rows 0 and 1 all zero
\* and every row k in 2..63 equal to the row that was at index (k - n) mod 64,
\* and the buffer keeps its 64 rows.
C12_ScrollDown ==
  (hist # <<>> /\ LastCall.op = "scroll_down" /\ LastCall.b \in 0..15)
    => /\ ~LastCall.panic
       /\ DOMAIN display.d = 0..63
       /\ display.d[0] = {}
       /\ display.d[1] = {}
       /\ \A k \in 2..63 :
            display.d[k] = LastCall.pre.d[(k + 64 - LastCall.b) % 64]

\* A scroll by 3 that wrapped a drawn bottom row into row 2 and lost the drawn
\* row 62 in row 1.
C12_Witness ==
  /\ hist # <<>>
  /\ LastCall.op = "scroll_down"
  /\ LastCall.b = 3
  /\ LastCall.pre.d[62] # {}
  /\ LastCall.pre.d[63] # {}
  /\ display.d[2] = LastCall.pre.d[63]
  /\ display.d[1] = {}

\* C13: the dirty flag signals all unread damage.  A write, clear, scroll_down
\* or scroll_side that returns leaves dirty() true; and whenever dirty() is
\* false the buffer equals the buffer as of the most recent read or read_px
\* (the new all-zero buffer if there was none).
C13_DirtySignalsDamage ==
  hist # <<>>
    => /\ (LastCall.op \in {"write", "clear", "scroll_down", "scroll_side"}
             /\ ~LastCall.panic)
            => display.dirty
       /\ ~display.dirty => display.d = LastCall.seen

\* C14: dirty() is true iff a write was called after the most recent read or
\* read_px (after construction if there was none); and hi_res_mode and
\* low_res_mode leave the flag and the buffer as they were.
C14_DirtyIffWriteSinceRead ==
  /\ display.dirty = (hist # <<>> /\ LastCall.unread)
  /\ (hist # <<>> /\ LastCall.op \in {"hi_res_mode", "low_res_mode"})
       => /\ display.dirty = LastCall.pre.dirty
          /\ display.d = LastCall.pre.d

\* A write, then a read that found the flag set and cleared it, then a mode
\* switch that left it clear over a drawn buffer.
C14_Witness ==
  /\ Len(hist) = 2
  /\ hist[1].op = "read"
  /\ hist[1].pre.dirty
  /\ hist[2].op = "hi_res_mode"
  /\ ~display.dirty
  /\ \E r \in 0..(NumRows - 1) : display.d[r] # {}

\* The memory bytes at I .. I + x of the 0xFx__ instruction about to run.
BlockRange == i..(i + OpX(Fetched))

\* C15: block store and load.  With I + k <= 4095, Fk55 completes, leaves
\* memory byte I + j equal to Vj for j in 0..k and every other byte, the
\* registers and I as they were; Fk65 completes, leaves Vj equal to memory
\* byte I + j for j in 0..k and every other register, the memory and I as they
\* were; and an Fk65 at the I of the most recent Fk55, with no write to memory
\* in between, leaves V0..Vk as that Fk55 found them, whatever the registers
\* held in between.
C15_BlockRoundTrip ==
  /\ [][(CpuTick /\ Family(Fetched) = 15 /\ OpKK(Fetched) = 85
           /\ i + OpX(Fetched) <= MemSize - 1)
          => /\ result' = "Ok"
             /\ \A a \in 0..(MemSize - 1) :
                  MemGet(mem', a) = IF a \in BlockRange THEN regs[a - i]
                                    ELSE MemGet(mem, a)
             /\ UNCHANGED <<regs, i>>]_vars
  /\ [][(CpuTick /\ Family(Fetched) = 15 /\ OpKK(Fetched) = 101
           /\ i + OpX(Fetched) <= MemSize - 1)
          => /\ result' = "Ok"
             /\ \A j \in 0..(NumRegs - 1) :
                  regs'[j] = IF j <= OpX(Fetched) THEN MemGet(mem, i + j)
                             ELSE regs[j]
             /\ UNCHANGED <<mem, i>>
             /\ (saved # <<>> /\ saved.i = i /\ saved.x = OpX(Fetched))
                  => \A j \in 0..OpX(Fetched) : regs'[j] = saved.regs[j]]_vars

\* After FF55 at the top of memory, sixteen 6xkk that changed every register,
\* and FF65: the sixteen registers are back to what the store found.
C15_Witness ==
  /\ result = "Ok"
  /\ saved # <<>>
  /\ saved.x = 15
  /\ saved.i = MemSize - 16
  /\ OpcodeAt(pc - 2) = 15 * 4096 + 15 * 256 + 101
  /\ OpcodeAt(pc - 4) \div 4096 = 6
  /\ regs = saved.regs
  /\ \A j \in 0..(NumRegs - 1) : regs[j] # 0

\* What load(at, program, font) must do, for at + len(program) <= 4096.
LoadLaw(inp) ==
  IF inp.at < 240
    THEN result' = "panic" /\ MachineUnchanged
    ELSE /\ result' = "unit"
         /\ pc' = inp.at
         /\ UNCHANGED <<regs, i, stack, sp, sound_timer, delay_timer, display>>
         /\ \A a \in 0..(MemSize - 1) :
              MemGet(mem', a) =
                IF a < 240
                  THEN (IF inp.font = None THEN DEFAULT_FONT
                        ELSE inp.font)[a + 1]
                ELSE IF a \in inp.at..(inp.at + Len(inp.program) - 1)
                  THEN inp.program[a - inp.at + 1]
                ELSE MemGet(mem, a)

\* C16: load with at < 240 fails and leaves the whole machine as it was; with
\* at >= 240 and the program inside the memory it leaves bytes 0..239 equal
\* to the font table (the default or the replacement), bytes at..at+len-1
\* equal to the program, PC = at, and the registers, I, the stack, the stack
\* pointer, the timers, the display and every other byte as they were.
C16_LoadLaw ==
  [][\A inp \in ReloadInputs :
       (ReloadWith(inp) /\ inp.at + Len(inp.program) <= MemSize)
         => LoadLaw(inp)]_vars

\* A second load, of the bare exit with the replacement font, over a machine
\* whose first program set V0, I, the timers, the stack and the display.
C16_Witness ==
  /\ nloads = 2
  /\ result = "unit"
  /\ pc = LoadAt
  /\ OpcodeAt(pc) = 253
  /\ MemGet(mem, 1) = 253
  /\ MemGet(mem, 768) = 1
  /\ regs[0] = 1
  /\ i = 768
  /\ sp = 1
  /\ stack[1] # 0
  /\ delay_timer = 1
  /\ display.dirty

\* C17: with Vx = d in 0..15, Fx29 leaves I at the first byte of the d-th
\* 5-byte glyph of the font table at bytes 0..239 (5d), and Fx30 leaves I at
\* the first byte of the d-th 10-byte glyph, which follow the sixteen 5-byte
\* glyphs (80 + 10d).
C17_GlyphAddress ==
  [][(CpuTick /\ Family(Fetched) = 15 /\ OpKK(Fetched) \in {41, 48}
        /\ regs[OpX(Fetched)] \in 0..15)
       => /\ result' = "Ok"
          /\ i' = IF OpKK(Fetched) = 41 THEN 5 * regs[OpX(Fetched)]
                  ELSE 16 * 5 + 10 * regs[OpX(Fetched)]]_vars

\* C18: in every state reached by load and cpu_tick calls the index register
\* is within 0..0xFFF (so the addition of Fx1E wraps inside that range).
C18_IndexRange == i \in 0..4095

\* The memory addresses the next cpu_tick indexes: the two bytes of the
\* opcode, and for an opcode fetched inside the memory the bytes it reads or
\* writes through I (a sprite row is read unless the write of an earlier row
\* has panicked).
WritePanics(x) ==
  write_rot((IF display.hi_res THEN x ELSE 2 * x) % RowBits,
            overflow_checks) < 0

NextAccesses ==
  {pc, pc + 1} \cup
    (IF pc + 1 > MemSize - 1 THEN {}
     ELSE IF Family(Fetched) = 13
       THEN LET ws == SpriteWrites(Machine, Fetched)
            IN  {ws[k].a : k \in {n \in 1..Len(ws) :
                                    \A j \in 1..(n - 1) : ~WritePanics(ws[j].x)}}
     ELSE IF Family(Fetched) = 15 /\ OpKK(Fetched) = 51 THEN i..(i + 2)
     ELSE IF Family(Fetched) = 15 /\ OpKK(Fetched) \in {85, 101}
       THEN i..(i + OpX(Fetched))
     ELSE {})

\* C20: in every state from which cpu_tick can be called on a loaded program,
\* the opcode fetch and every access through I address bytes 0..4095 only.
C20_AccessInBounds ==
  (loaded /\ result # "panic") => NextAccesses \subseteq 0..(MemSize - 1)

\* C19: timers and instructions are decoupled.  timers_tick leaves each timer
\* at max(t - 1, 0) and everything else as it was; cpu_tick leaves the delay
\* timer as it was unless it runs Fx15 (then Vx), and the sound timer unless
\* it runs Fx18 (then Vx); and once 255 timers_tick calls have followed the
\* last Fx15 or Fx18, however interleaved with cpu_tick, both timers are 0 and
\* no sound is playing.
C19_TimersDecoupled ==
  /\ [][TimersTickCounted
          => /\ delay_timer' = IF delay_timer > 0 THEN delay_timer - 1 ELSE 0
             /\ sound_timer' = IF sound_timer > 0 THEN sound_timer - 1 ELSE 0
             /\ UNCHANGED <<mem, regs, stack, pc, i, sp, display, result>>]_vars
  /\ [][CpuTick
          => /\ delay_timer' =
                  IF Family(Fetched) = 15 /\ OpKK(Fetched) = 21
                    THEN regs[OpX(Fetched)] ELSE delay_timer
             /\ sound_timer' =
                  IF Family(Fetched) = 15 /\ OpKK(Fetched) = 24
                    THEN regs[OpX(Fetched)] ELSE sound_timer]_vars
  /\ [](tticks = 255
          => /\ delay_timer = 0
             /\ sound_timer = 0
             /\ ~is_sound_playing(Machine))

\* F018 with V0 = 255, then 254 timer ticks: the sound still plays, one tick
\* before the 255th.
C19_Witness ==
  /\ loaded
  /\ OpcodeAt(LoadAt + 2) = 15 * 4096 + 24
  /\ regs[0] = 255
  /\ pc = LoadAt + 4
  /\ tticks = 254
  /\ sound_timer = 1
  /\ is_sound_playing(Machine)

====
